---- MODULE Spec2Model ----
(***************************************************************************)
(* The phased build of the site generator: the driver function `build`,    *)
(* the jobs it sends on c.Jobs, the workers of the pool that run them, the  *)
(* aggregate collections the phase-1 jobs append to and the phase-2 jobs    *)
(* that read them.                                                          *)
(*                                                                         *)
(* The repository holds several revisions of `build`: src/main.go,          *)
(* src/unnamed/part_000 (articles and fragments kept in package globals    *)
(* and guarded by a mutex), src/unnamed/part_001 (an early revision: the   *)
(* hello file, the articles and the pages) and src/build.go (the minimal   *)
(* sample).  The variable `version` fixes, for a whole behaviour, which    *)
(* revision runs.                                                          *)
(*                                                                         *)
(* The pool, the context and the change tracker belong to the modulr       *)
(* library, which is no part of src/; they are modelled from the           *)
(* specification (sections 4.1 to 4.3).                                    *)
(*                                                                         *)
(* Inputs of one build invocation: the force flag, the first-run flag, the *)
(* state of the change tracker, and the quality of the sources.  All       *)
(* sources share one default (all changed on a first run, all unchanged on *)
(* a rerun); at most one source, `focus`, deviates from the default in its *)
(* tracker state or in its quality `fq`.                                   *)
(***************************************************************************)
EXTENDS Integers, Sequences, FiniteSets, TLC

\* Bounds of the model.
NumWorkers == 2
NumArticles == 2
NumOther == 1
NumPhotos == 1
NumSequences == 2
MaxItems == 3     \* items of a collection handed to a function on its own
MaxTime == 3      \* instants a timestamp can name
YearLength == 3   \* instants of one calendar year

Versions == {"main", "part000", "part001", "buildgo"}

Workers == 1..NumWorkers

VARIABLES
    version,          \* the revision of build that runs
    forced,           \* c.Forced() of the root context
    firstRun,         \* c.FirstRun
    focus,            \* the one source that deviates from the default
    fq,               \* quality of the focus source
    at,               \* published_at / occurred_at of each item
    call,             \* a function run on its own: its name and arguments (arg: the
                      \* collection, marked: its items that carry the tag or flag the
                      \* function tests, tag: a tag is given, n: conf.NumAtomEntries)
    result,           \* what that call returned
    stored,           \* change tracker: resources whose stored fingerprint is current
    db,               \* part_000: "unset", "nil" (no database URL) or "open"
    ip,               \* driver: index into Program(version)
    idx,              \* driver: loop counter inside the current section
    seqTodo,          \* driver: sequence slugs the range loop has not visited
    seqCur,           \* driver: slug under iteration (0: none)
    ret,              \* value build returned: "running", "nil" or "err" ("crash": the process died)
    failedStep,       \* the phase-0 step that returned an error ("none": none did)
    waits,            \* number of c.Wait() calls that returned
    waitRes,          \* result of the first c.Wait(): "none", "ok" or "failed"
    pageForced,       \* pageContext is a forced context
    queue,            \* c.Jobs
    wjob,             \* job each worker runs
    wpc,              \* position of each worker inside its job
    wsnap,            \* slice value a worker read for its append
    res,              \* (executed, error) reported by each job
    phaseFailed,      \* pool: a job failed since the last barrier
    articles, fragments, passages, talks, photos, sequences,
    articlesChanged, fragmentsChanged, passagesChanged, photosChanged,
    sequencesChanged,
    mu,               \* part_000: holder of articlesMu / fragmentsMu (0: free)
    markers,          \* fetch+resize jobs whose marker file exists
    written           \* jobs that wrote their target in this invocation

drv == <<ip, idx, seqTodo, seqCur, ret, failedStep, waits, waitRes, pageForced, db>>
inputs == <<version, forced, firstRun, focus, fq, at, call, result>>
pool == <<queue, wjob, wpc, wsnap, res, phaseFailed>>
colls == <<articles, fragments, passages, talks, photos, sequences>>
flags == <<articlesChanged, fragmentsChanged, passagesChanged, photosChanged,
           sequencesChanged>>
vars == <<inputs, stored, drv, pool, colls, flags, mu, markers, written>>

----------------------------------------------------------------------------
\* Jobs and sources

J(k, s, i) == [kind |-> k, seq |-> s, i |-> i]
NoJob == J("none", 0, 0)

\* Kinds whose sources come from a directory listing (mfile.ReadDir).
ListedKinds == {"article", "fragment", "page", "passage", "sequenceMeta", "talk"}

\* Kinds of jobs that append to an aggregate collection.
AggregateKinds == {"article", "fragment", "passage", "talk"}

Count(k) ==
    IF k = "article" THEN NumArticles
    ELSE IF k = "sequenceMeta" THEN NumSequences
    ELSE IF k \in ListedKinds THEN NumOther
    ELSE 1

SeqSlugs == 1..NumSequences
Manifest == [i \in 1..NumPhotos |-> i]

Phase1Kinds == {"article", "fragment", "javascripts", "page", "passage",
                "photosMeta", "reading", "robots", "runs", "sequenceMeta",
                "stylesheets", "talk", "twitter", "hello"}
Phase2Kinds == {"articlesIndex", "articlesFeed", "articlesFeedPostgres",
                "fragmentsIndex", "fragmentsFeed", "home", "passagesIndex",
                "photoIndex", "photoFetch", "sequencePage", "sequenceFetch"}

Phase1Jobs ==
    UNION {{J(k, 0, i) : i \in 1..Count(k)} : k \in Phase1Kinds \ {"sequenceMeta"}}
    \cup {J("sequenceMeta", s, 1) : s \in SeqSlugs}
Phase2Jobs ==
    {J(k, 0, 1) : k \in Phase2Kinds \ {"photoFetch", "sequencePage", "sequenceFetch"}}
    \cup {J("photoFetch", 0, i) : i \in 1..NumPhotos}
    \cup {J(k, s, i) : k \in {"sequencePage", "sequenceFetch"}, s \in SeqSlugs, i \in 1..NumPhotos}
AllJobs == Phase1Jobs \cup Phase2Jobs

\* pages/_meta.yaml, parsed by the driver itself
PagesMeta == J("pagesMeta", 0, 1)

\* A build that enqueues the articles index before it waits on the barrier.
ProgramMainLateBarrier ==
    <<"decode", "dirs", "symlinks",
      "article", "fragment", "javascripts", "page", "passage", "photosMeta",
      "robots", "sequenceMeta", "stylesheets", "talk",
      "articlesIndex", "wait", "sort",
      "articlesFeed", "articlesFeedPostgres", "fragmentsIndex",
      "fragmentsFeed", "home", "passagesIndex", "photoIndex", "photoFetch",
      "sequencesRange", "sequences", "return">>

\* A build that sends the articles index right after the article jobs:
\* before the barrier and the sort.
ProgramMainUnsortedIndex ==
    <<"decode", "dirs", "symlinks",
      "article", "articlesIndex", "fragment", "javascripts", "page", "passage",
      "photosMeta", "robots", "sequenceMeta", "stylesheets", "talk",
      "wait", "sort",
      "articlesFeed", "articlesFeedPostgres", "fragmentsIndex",
      "fragmentsFeed", "home", "passagesIndex", "photoIndex", "photoFetch",
      "sequencesRange", "sequences", "return">>

\* build with the common directories created after the article jobs were sent.
ProgramMainLateDirs ==
    <<"decode", "symlinks",
      "article", "dirs", "fragment", "javascripts", "page", "passage", "photosMeta",
      "robots", "sequenceMeta", "stylesheets", "talk",
      "wait", "sort",
      "articlesIndex", "articlesFeed", "articlesFeedPostgres", "fragmentsIndex",
      "fragmentsFeed", "home", "passagesIndex", "photoIndex", "photoFetch",
      "sequencesRange", "sequences", "return">>

\* The driver as the sequence of its sections, in source order.
ProgramMain ==
    <<"decode", "dirs", "symlinks",
      "article", "fragment", "javascripts", "page", "passage", "photosMeta",
      "robots", "sequenceMeta", "stylesheets", "talk",
      "wait", "sort",
      "articlesIndex", "articlesFeed", "articlesFeedPostgres", "fragmentsIndex",
      "fragmentsFeed", "home", "passagesIndex", "photoIndex", "photoFetch",
      "sequencesRange", "sequences", "return">>

ProgramPart000 ==
    <<"decode", "db", "dirs", "symlinks",
      "article", "fragment", "javascripts", "page", "passage", "photosMeta",
      "reading", "robots", "runs", "sequenceMeta", "stylesheets", "talk", "twitter",
      "wait", "sort",
      "articlesIndex", "articlesFeed", "articlesFeedPostgres", "fragmentsIndex",
      "fragmentsFeed", "home", "passagesIndex", "photoIndex", "photoFetch",
      "sequencesRange", "sequences", "return">>

\* The later of the two revisions of build in src/unnamed/part_001.
ProgramPart001 == <<"decode", "hello", "article", "page", "wait", "return">>

ProgramBuildGo == <<"dirs", "hello", "return">>

Program(v) ==
    IF v = "main" THEN ProgramMain
    ELSE IF v = "part000" THEN ProgramPart000
    ELSE IF v = "part001" THEN ProgramPart001
    ELSE ProgramBuildGo

SetupSteps == {"decode", "db", "dirs", "symlinks"}

\* Kinds of the sources of a revision (the jobs of phase 1).
SourceKinds(v) == {Program(v)[n] : n \in 1..Len(Program(v))} \cap Phase1Kinds
Sources(v) == {j \in Phase1Jobs : j.kind \in SourceKinds(v)}
                 \cup (IF v = "buildgo" THEN {} ELSE {PagesMeta})

At == IF ip = 0 THEN "returned" ELSE Program(version)[ip]

----------------------------------------------------------------------------
\* Change tracker and context (modulr)

Changed(r) == r \notin stored

Quality(j) == IF j = focus THEN fq ELSE "ok"

\* What can go wrong with a source: "parsefail" is an error of the first call
\* that reads it (frontmatter parse, directory listing, database query),
\* "invalid" a failed validate(), "renderfail" an error of the final render,
\* compile, copy or create.
QualitiesOf(k) ==
    IF k \in {"article", "fragment", "passage"} THEN {"ok", "parsefail", "invalid", "renderfail"}
    ELSE IF k \in {"photosMeta", "sequenceMeta", "pagesMeta"} THEN {"ok", "parsefail"}
    ELSE IF k \in {"robots", "hello"} THEN {"ok", "renderfail"}
    ELSE IF k = "none" THEN {"ok"}
    ELSE {"ok", "parsefail", "renderfail"}

\* The tracker's answer for source r when the invocation starts.  On a
\* first run every source is changed, on a rerun none is; the focus source
\* is the exception, but a source that cannot be read or is invalid never
\* had its fingerprint committed and is changed in any case.
ChangedAtStart(r) ==
    IF r = focus
    THEN (IF fq = "ok" THEN ~firstRun ELSE TRUE)
    ELSE firstRun

\* Declarations of the changed flags.
InitArticlesChanged(v) == v = "main"
InitFragmentsChanged(v) == v = "main"
InitPassagesChanged(v) == TRUE

EmptyMap == [s \in {} |-> 0]

\* Timestamps: a *time.Time is nil or names an instant together with the
\* UTC offset it was written with in the source.
ItemIds == 1..MaxItems
Zones == {0, 2}

NilTime == [instant |-> 0, zone |-> 0]
Times == [instant : 1..MaxTime, zone : Zones]

\* Discovery order is oldest first, every timestamp in UTC.
DiscoveryTimes == [i \in ItemIds |-> [instant |-> i, zone |-> 0]]

\* No function runs on its own during a build.
NoCall == [fn |-> "none", arg |-> <<>>, alt |-> <<>>, marked |-> {}, tag |-> FALSE, n |-> 0]

\* The call has not returned.
NotReturned == [done |-> FALSE]

\* The call returned out (and alt for the second collection of a sort).
Returns(out, alt) == [done |-> TRUE, panic |-> FALSE, out |-> out, alt |-> alt]

\* The call did not return: a nil pointer was dereferenced.
Panic == [done |-> TRUE, panic |-> TRUE]

Init ==
    /\ version \in Versions
    /\ forced \in BOOLEAN
    /\ firstRun \in BOOLEAN
    /\ focus \in Sources(version) \cup {NoJob}
    /\ fq \in QualitiesOf(focus.kind)
    /\ at = DiscoveryTimes
    /\ call = NoCall /\ result = NotReturned
    /\ stored = {r \in Sources(version) : ~ChangedAtStart(r)}
    /\ db = "unset"
    /\ ip = 1 /\ idx = 0 /\ seqTodo = {} /\ seqCur = 0
    /\ ret = "running" /\ failedStep = "none"
    /\ waits = 0 /\ waitRes = "none" /\ pageForced = FALSE
    /\ queue = <<>>
    /\ wjob = [w \in Workers |-> NoJob]
    /\ wpc = [w \in Workers |-> "idle"]
    /\ wsnap = [w \in Workers |-> <<>>]
    /\ res = [j \in AllJobs |-> "unset"]
    /\ phaseFailed = FALSE
    /\ articles = <<>> /\ fragments = <<>> /\ passages = <<>> /\ talks = <<>>
    /\ photos = <<>> /\ sequences = EmptyMap
    /\ articlesChanged = InitArticlesChanged(version)
    /\ fragmentsChanged = InitFragmentsChanged(version)
    /\ passagesChanged = InitPassagesChanged(version)
    /\ photosChanged = FALSE
    /\ sequencesChanged = EmptyMap
    /\ mu = [k \in {"article", "fragment"} |-> 0]
    /\ markers = IF firstRun THEN {} ELSE {j \in Phase2Jobs : j.kind \in {"photoFetch", "sequenceFetch"}}
    /\ written = {}

----------------------------------------------------------------------------
\* Renderers: what a job body returns, as [executed, err, item, wrote]:
\* the (executed, error) pair, whether a non-nil item comes back, and
\* whether the target was written.

R(executed, err, item, wrote) ==
    [executed |-> executed, err |-> err, item |-> item, wrote |-> wrote]

\* A renderArticle that takes its skip decision from the forced derivative
\* it parsed with: the test `!c.Forced()` is never true.
renderArticleForcedParent(v, c, changed, q) ==
    IF q # "ok" THEN R(TRUE, TRUE, FALSE, FALSE)
    ELSE R(TRUE, FALSE, TRUE, TRUE)

\* renderArticle, renderFragment: c is the force flag of the context,
\* changed the tracker's answer for the source, q the source's quality.
renderArticle(v, c, changed, q) ==
    IF v = "part000"
    THEN IF q = "parsefail" THEN R(TRUE, TRUE, FALSE, FALSE)
         ELSE IF ~changed /\ ~c THEN R(FALSE, FALSE, FALSE, FALSE)
         ELSE IF q = "invalid" THEN R(TRUE, TRUE, FALSE, FALSE)
         ELSE IF q = "renderfail" THEN R(TRUE, TRUE, FALSE, FALSE)
         ELSE R(TRUE, FALSE, TRUE, TRUE)
    ELSE IF q \in {"parsefail", "invalid"} THEN R(TRUE, TRUE, FALSE, FALSE)
         ELSE IF ~changed /\ ~c THEN R(TRUE, FALSE, TRUE, FALSE)
         ELSE IF q = "renderfail" THEN R(TRUE, TRUE, FALSE, FALSE)
         ELSE R(TRUE, FALSE, TRUE, TRUE)

renderFragment(v, c, changed, q) == renderArticle(v, c, changed, q)

\* renderArticle of part_001: `if unchanged { c.Stats.SetJobSkipped();
\* return &article, nil }`, whatever c.Forced() says.
renderArticle001(c, changed, q) ==
    IF q \in {"parsefail", "invalid"} THEN R(TRUE, TRUE, FALSE, FALSE)
    ELSE IF ~changed THEN R(FALSE, FALSE, TRUE, FALSE)
    ELSE IF q = "renderfail" THEN R(TRUE, TRUE, FALSE, FALSE)
    ELSE R(TRUE, FALSE, TRUE, TRUE)

renderPassage(c, changed, q) ==
    IF q \in {"parsefail", "invalid"} THEN R(TRUE, TRUE, FALSE, FALSE)
    ELSE IF ~changed /\ ~c THEN R(TRUE, FALSE, TRUE, FALSE)
    ELSE IF q = "renderfail" THEN R(TRUE, TRUE, FALSE, FALSE)
    ELSE R(TRUE, FALSE, TRUE, TRUE)

renderTalk(c, changed, q) ==
    IF ~changed /\ ~c THEN R(FALSE, FALSE, FALSE, FALSE)
    ELSE IF q = "parsefail" THEN R(TRUE, TRUE, FALSE, FALSE)
    ELSE IF q = "renderfail" THEN R(TRUE, TRUE, TRUE, FALSE)
    ELSE R(TRUE, FALSE, TRUE, TRUE)

\* compileJavascripts, compileStylesheets
compileAssets(c, changed, q) ==
    IF q = "parsefail" THEN R(FALSE, TRUE, FALSE, FALSE)
    ELSE IF ~changed /\ ~c THEN R(FALSE, FALSE, FALSE, FALSE)
    ELSE R(TRUE, q = "renderfail", FALSE, q # "renderfail")

\* renderPage: c is the force flag of pageContext.
renderPage(c, changed, q) ==
    IF q = "parsefail" THEN R(TRUE, TRUE, FALSE, FALSE)
    ELSE IF ~changed /\ ~c THEN R(FALSE, FALSE, FALSE, FALSE)
    ELSE R(TRUE, q = "renderfail", FALSE, q # "renderfail")

renderRobotsTxt(c, first, q) ==
    IF ~first /\ ~c THEN R(FALSE, FALSE, FALSE, FALSE)
    ELSE R(TRUE, q = "renderfail", FALSE, q # "renderfail")

\* renderReading, renderRuns, renderTwitter (part_000)
renderFromDb(c, first, d, q) ==
    IF d # "open" THEN R(FALSE, FALSE, FALSE, FALSE)
    ELSE IF ~first /\ ~c THEN R(FALSE, FALSE, FALSE, FALSE)
    ELSE IF q = "parsefail" THEN R(TRUE, TRUE, FALSE, FALSE)
    ELSE R(TRUE, q = "renderfail", FALSE, q # "renderfail")

\* The photographs and sequences manifests are parsed with a forced context.
parseManifest(q) ==
    IF q = "parsefail" THEN R(TRUE, TRUE, FALSE, FALSE)
    ELSE R(TRUE, FALSE, TRUE, FALSE)

\* The "hello" job of build.go
copyHello(c, changed, q) ==
    IF ~changed /\ ~c THEN R(FALSE, FALSE, FALSE, FALSE)
    ELSE R(TRUE, q = "renderfail", FALSE, q # "renderfail")

\* A phase-2 job gated by a changed flag.
gated(flag, q) ==
    IF ~flag THEN R(FALSE, FALSE, FALSE, FALSE)
    ELSE R(TRUE, q = "renderfail", FALSE, q # "renderfail")

\* A fetch + resize that does not look for the marker.
fetchAndResizePhotoUnmarked(marker, q) == R(TRUE, q # "ok", FALSE, q = "ok")

fetchAndResizePhoto(marker, q) ==
    IF marker THEN R(FALSE, FALSE, FALSE, FALSE)
    ELSE R(TRUE, q # "ok", FALSE, q = "ok")

\* A fetch + resize that creates the marker before it fetches.
MarkerCreatedFirst(r) == r.executed

\* The os.OpenFile of the marker is the last statement before `return true,
\* nil`: every error return of the fetch and of the resizes lies before it.
MarkerCreated(r) == r.executed /\ ~r.err

\* The flag a phase-2 job of kind k tests.
Gate(j) ==
    IF j.kind \in {"articlesIndex", "articlesFeed", "articlesFeedPostgres"} THEN articlesChanged
    ELSE IF j.kind \in {"fragmentsIndex", "fragmentsFeed"} THEN fragmentsChanged
    ELSE IF j.kind = "home" THEN articlesChanged \/ fragmentsChanged \/ photosChanged
    ELSE IF j.kind = "passagesIndex" THEN passagesChanged
    ELSE IF j.kind = "photoIndex" THEN photosChanged
    ELSE IF j.seq \in DOMAIN sequencesChanged THEN sequencesChanged[j.seq]
    ELSE FALSE

\* The body of job j in the current state.
Body(j) ==
    LET k == j.kind
        q == Quality(j)
        ch == Changed(j)
    IN  IF k = "article" /\ version = "part001" THEN renderArticle001(forced, ch, q)
        ELSE IF k = "article" THEN renderArticle(version, forced, ch, q)
        ELSE IF k = "fragment" THEN renderFragment(version, forced, ch, q)
        ELSE IF k = "passage" THEN renderPassage(forced, ch, q)
        ELSE IF k = "talk" THEN renderTalk(forced, ch, q)
        ELSE IF k \in {"javascripts", "stylesheets"} THEN compileAssets(forced, ch, q)
        ELSE IF k = "page" THEN renderPage(pageForced, ch, q)
        ELSE IF k = "robots" THEN renderRobotsTxt(forced, firstRun, q)
        ELSE IF k \in {"reading", "runs", "twitter"} THEN renderFromDb(forced, firstRun, db, q)
        ELSE IF k \in {"photosMeta", "sequenceMeta"} THEN parseManifest(q)
        ELSE IF k = "hello" THEN copyHello(forced, ch, q)
        ELSE IF k \in {"photoFetch", "sequenceFetch"} THEN fetchAndResizePhoto(j \in markers, q)
        ELSE gated(Gate(j), q)

\* The value a job reports to the pool.
Outcome(r) ==
    IF r.err THEN (IF r.executed THEN "err" ELSE "skiperr")
    ELSE IF r.executed THEN "ok" ELSE "skip"

----------------------------------------------------------------------------
\* Sorting

Elements(xs) == {xs[n] : n \in 1..Len(xs)}

Occurrences(s, x) == Cardinality({n \in 1..Len(s) : s[n] = x})

IsPermutation(s, t) ==
    /\ Len(s) = Len(t)
    /\ \A x \in Elements(s) \cup Elements(t) : Occurrences(s, x) = Occurrences(t, x)

\* The timestamp of item i.
PublishedAt(i) == at[i]

\* t.Before(u): the instants are compared, whatever the offsets.
Before(t, u) == t.instant < u.instant

\* A less that orders oldest first.
LessAscending(x, y) == Before(PublishedAt(x), PublishedAt(y))

\* less(i, j) of sortArticles: the element at j is before the element at i.
Less(x, y) == Before(PublishedAt(y), PublishedAt(x))

\* The comparator dereferences both timestamps, and it is called on every
\* element as soon as there are two: the sort of such a collection panics
\* if one of the timestamps is nil.
Panics(s) == Len(s) >= 2 /\ \E n \in 1..Len(s) : PublishedAt(s[n]) = NilTime

\* sort.Slice(s, less): the elements of s in an order where no element is
\* less than one before it.  "The sort is not guaranteed to be stable":
\* every such order is a possible result.
SortSlice(s) ==
    {t \in [1..Len(s) -> Elements(s)] :
        /\ IsPermutation(t, s)
        /\ \A a, b \in 1..Len(t) : a < b => ~Less(t[b], t[a])}

sortArticles(s) == SortSlice(s)
sortFragments(s) == SortSlice(s)
sortPassages(s) == SortSlice(s)
sortPhotos(s) == SortSlice(s)
sortTalks(s) == SortSlice(s)

----------------------------------------------------------------------------
\* The driver: build

\* A build that goes on after a failed EnsureDir or EnsureSymlink.
SetupErrorIgnored(v, step) == step \notin {"dirs", "symlinks"}

\* `if err != nil { return ... }` after a phase-0 step
SetupErrorAborts(v, step) == TRUE

\* The value returned when a phase-0 step fails.
SetupErrorReturn(v, step) ==
    IF step \in {"decode", "db"} THEN "err"
    ELSE IF v = "buildgo" THEN "err"
    ELSE "nil"

\* A build that goes on to phase 2 whatever c.Wait() reports.
WaitFailureIgnored(v) == FALSE

\* `if !c.Wait() { return nil }`
WaitFailureAborts(v) == TRUE
WaitFailureReturn(v) == "nil"

Return(val) == ret' = val /\ ip' = 0 /\ idx' = 0

\* The force flag of pageContext: f is the flag of c, metaChanged the
\* tracker's answer for pages/_meta.yaml.  part_001 calls c.ForcedContext()
\* and drops its result.
PageContext(v, f, metaChanged) ==
    IF v = "part001" THEN f ELSE (f \/ metaChanged)

\* envdecode.Decode, sql.Open, the EnsureDir loop, the EnsureSymlink loop
DriverSetup ==
    /\ At \in SetupSteps
    /\ \E ok \in BOOLEAN :
         IF ok \/ ~SetupErrorAborts(version, At)
         THEN /\ ip' = ip + 1
              /\ failedStep' = IF ok THEN failedStep ELSE At
              /\ UNCHANGED <<idx, ret>>
         ELSE /\ Return(SetupErrorReturn(version, At))
              /\ failedStep' = At
    /\ IF At = "db" THEN db' \in {"nil", "open"} ELSE UNCHANGED db
    /\ UNCHANGED <<inputs, stored, seqTodo, seqCur, waits, waitRes, pageForced,
                   pool, colls, flags, mu, markers, written>>

\* mfile.ReadDir of a content directory (and of its drafts directory); for
\* the pages also the parse of pages/_meta.yaml with a forced context.
DriverList ==
    /\ At \in ListedKinds
    /\ idx = 0
    /\ \E ok \in BOOLEAN :
         IF ok /\ (At = "page" => Quality(PagesMeta) = "ok")
         THEN /\ idx' = 1
              /\ pageForced' = IF At = "page"
                               THEN PageContext(version, forced, Changed(PagesMeta))
                               ELSE pageForced
              /\ UNCHANGED <<ip, ret>>
         ELSE /\ Return("err")
              /\ UNCHANGED pageForced
    /\ UNCHANGED <<inputs, stored, seqTodo, seqCur, failedStep, waits, waitRes, db,
                   pool, colls, flags, mu, markers, written>>

\* c.Jobs <- func() ... for one source of a phase-1 section or for one of
\* the single jobs of phase 2
DriverEnqueue ==
    /\ At \in (Phase1Kinds \cup Phase2Kinds) \ {"photoFetch"}
    /\ At \in ListedKinds => idx >= 1
    /\ LET i == IF idx = 0 THEN 1 ELSE idx
           j == IF At = "sequenceMeta" THEN J(At, i, 1) ELSE J(At, 0, i)
       IN  /\ queue' = Append(queue, j)
           /\ IF i = Count(At)
              THEN ip' = ip + 1 /\ idx' = 0
              ELSE ip' = ip /\ idx' = i + 1
    /\ UNCHANGED <<inputs, stored, seqTodo, seqCur, ret, failedStep, waits, waitRes,
                   pageForced, db, wjob, wpc, wsnap, res, phaseFailed,
                   colls, flags, mu, markers, written>>

\* A barrier that only waits for the queue to empty.
PoolQueueEmpty == queue = <<>>

\* The pool has drained: nothing is queued and no job is in flight.
PoolDrained ==
    /\ queue = <<>>
    /\ \A w \in Workers : wjob[w] = NoJob

\* c.Wait(): returns once the pool has drained, reports whether a job of
\* the phase failed, and resets the pool for the next phase.
DriverWait ==
    /\ At = "wait"
    /\ PoolDrained
    /\ waits' = waits + 1
    /\ waitRes' = IF waits = 0 THEN (IF phaseFailed THEN "failed" ELSE "ok") ELSE waitRes
    /\ phaseFailed' = FALSE
    /\ IF phaseFailed /\ WaitFailureAborts(version)
       THEN Return(WaitFailureReturn(version))
       ELSE ip' = ip + 1 /\ UNCHANGED <<idx, ret>>
    /\ UNCHANGED <<inputs, stored, seqTodo, seqCur, failedStep, pageForced, db,
                   queue, wjob, wpc, wsnap, res, colls, flags, mu, markers, written>>

\* sortArticles, sortFragments, sortPassages, sortPhotos, sortTalks
DriverSort ==
    /\ At = "sort"
    /\ articles' \in sortArticles(articles)
    /\ fragments' \in sortFragments(fragments)
    /\ passages' \in sortPassages(passages)
    /\ photos' \in sortPhotos(photos)
    /\ talks' \in sortTalks(talks)
    /\ ip' = ip + 1
    /\ UNCHANGED <<inputs, stored, idx, seqTodo, seqCur, ret, failedStep, waits,
                   waitRes, pageForced, db, pool, sequences, flags, mu, markers, written>>

\* for _, p := range photos { c.Jobs <- fetchAndResizePhoto }
DriverEnqueuePhotoFetch ==
    /\ At = "photoFetch"
    /\ IF idx < Len(photos)
       THEN /\ queue' = Append(queue, J("photoFetch", 0, photos[idx + 1]))
            /\ idx' = idx + 1
            /\ UNCHANGED ip
       ELSE /\ ip' = ip + 1 /\ idx' = 0
            /\ UNCHANGED queue
    /\ UNCHANGED <<inputs, stored, seqTodo, seqCur, ret, failedStep, waits, waitRes,
                   pageForced, db, wjob, wpc, wsnap, res, phaseFailed,
                   colls, flags, mu, markers, written>>

\* for s, p := range sequences: the keys the range visits, in any order
DriverSequencesRange ==
    /\ At = "sequencesRange"
    /\ seqTodo' = DOMAIN sequences
    /\ seqCur' = 0
    /\ ip' = ip + 1
    /\ UNCHANGED <<inputs, stored, idx, ret, failedStep, waits, waitRes, pageForced, db,
                   pool, colls, flags, mu, markers, written>>

\* the two mfile.EnsureDir of one sequence
DriverSequenceDirs ==
    /\ At = "sequences"
    /\ seqCur = 0
    /\ seqTodo # {}
    /\ \E s \in seqTodo, ok \in BOOLEAN :
         IF ok
         THEN /\ seqTodo' = seqTodo \ {s}
              /\ seqCur' = IF Len(sequences[s]) = 0 THEN 0 ELSE s
              /\ idx' = 0
              /\ UNCHANGED <<ip, ret>>
         ELSE /\ Return("err")
              /\ UNCHANGED <<seqTodo, seqCur>>
    /\ UNCHANGED <<inputs, stored, failedStep, waits, waitRes, pageForced, db,
                   pool, colls, flags, mu, markers, written>>

\* the sequence page job and the fetch+resize job of one photo of a sequence
DriverEnqueueSequence ==
    /\ At = "sequences"
    /\ seqCur # 0
    /\ LET p == sequences[seqCur][(idx \div 2) + 1]
           k == IF idx % 2 = 0 THEN "sequencePage" ELSE "sequenceFetch"
       IN  /\ queue' = Append(queue, J(k, seqCur, p))
           /\ idx' = idx + 1
           /\ seqCur' = IF idx + 1 = 2 * Len(sequences[seqCur]) THEN 0 ELSE seqCur
    /\ UNCHANGED <<inputs, stored, ip, seqTodo, ret, failedStep, waits, waitRes,
                   pageForced, db, wjob, wpc, wsnap, res, phaseFailed,
                   colls, flags, mu, markers, written>>

\* the end of the range over sequences
DriverSequencesDone ==
    /\ At = "sequences"
    /\ seqCur = 0
    /\ seqTodo = {}
    /\ ip' = ip + 1 /\ idx' = 0
    /\ UNCHANGED <<inputs, stored, seqTodo, seqCur, ret, failedStep, waits, waitRes,
                   pageForced, db, pool, colls, flags, mu, markers, written>>

\* the final `return nil`
DriverReturn ==
    /\ At = "return"
    /\ Return("nil")
    /\ UNCHANGED <<inputs, stored, seqTodo, seqCur, failedStep, waits, waitRes,
                   pageForced, db, pool, colls, flags, mu, markers, written>>

----------------------------------------------------------------------------
\* The workers of the pool and the jobs they run

Coll(k) ==
    IF k = "article" THEN articles
    ELSE IF k = "fragment" THEN fragments
    ELSE IF k = "passage" THEN passages
    ELSE talks

SetColl(k, val) ==
    /\ articles' = IF k = "article" THEN val ELSE articles
    /\ fragments' = IF k = "fragment" THEN val ELSE fragments
    /\ passages' = IF k = "passage" THEN val ELSE passages
    /\ talks' = IF k = "talk" THEN val ELSE talks

\* How the job of an aggregate kind adds its item once the renderer has
\* returned r: "append" is the unguarded `xs = append(xs, x)` of the job
\* closure, "mutex" the guarded insertOrReplace inside the renderer of
\* part_000, "no" a return before either.
Appends(v, k, r) ==
    IF k \notin AggregateKinds THEN "no"
    ELSE IF v = "part000" /\ k \in {"article", "fragment"}
         THEN (IF r.executed /\ ~r.err /\ r.wrote THEN "mutex" ELSE "no")
    ELSE IF k = "talk" THEN (IF r.executed /\ ~r.err THEN "append" ELSE "no")
    ELSE IF ~r.err THEN "append" ELSE "no"

\* insertOrReplaceArticle, insertOrReplaceFragment: the slice the caller
\* holds after the call.  An element with the item's slug is replaced in
\* place; otherwise the item is appended to the callee's copy of the slice
\* header, which the caller never sees.
insertOrReplaceArticle(xs, x) ==
    IF \E n \in 1..Len(xs) : xs[n] = x
    THEN [n \in 1..Len(xs) |-> IF xs[n] = x THEN x ELSE xs[n]]
    ELSE xs

\* `articlesChanged = boolPointer(true)`: the parameter is re-pointed, the
\* flag of build keeps its value.
SetChanged(flag) == flag

\* A pool that cancels the jobs still queued once a job of the phase has
\* failed: they yield no result.
RecordUnlessFailed(j, r) ==
    IF phaseFailed
    THEN UNCHANGED <<res, phaseFailed, stored>>
    ELSE /\ res' = [res EXCEPT ![j] = Outcome(r)]
         /\ phaseFailed' = r.err
         /\ stored' = IF ~r.err /\ j \in Phase1Jobs THEN stored \cup {j} ELSE stored

\* A tracker that commits the fingerprint as soon as the source was read,
\* whether the job succeeds or not.
RecordOnRead(j, r) ==
    /\ res' = [res EXCEPT ![j] = Outcome(r)]
    /\ phaseFailed' = (phaseFailed \/ r.err)
    /\ stored' = IF j \in Phase1Jobs THEN stored \cup {j} ELSE stored

\* A pool that remembers only whether the last job to finish failed.
RecordLastOnly(j, r) ==
    /\ res' = [res EXCEPT ![j] = Outcome(r)]
    /\ phaseFailed' = r.err
    /\ stored' = IF ~r.err /\ j \in Phase1Jobs THEN stored \cup {j} ELSE stored

\* The pool records the (executed, error) of a finished job; the tracker
\* commits the fingerprint of its source if the job did not fail.
Record(j, r) ==
    /\ res' = [res EXCEPT ![j] = Outcome(r)]
    /\ phaseFailed' = (phaseFailed \/ r.err)
    /\ stored' = IF ~r.err /\ j \in Phase1Jobs THEN stored \cup {j} ELSE stored

\* The worker is free for the next job.
Finish(w, j, r) ==
    /\ Record(j, r)
    /\ wjob' = [wjob EXCEPT ![w] = NoJob]
    /\ wpc' = [wpc EXCEPT ![w] = "idle"]

\* A worker receives the next job from c.Jobs and runs its body up to the
\* first access to an aggregate collection; a job that makes no such access
\* runs to its end.
Run(w) ==
    /\ wjob[w] = NoJob
    /\ queue # <<>>
    /\ queue' = Tail(queue)
    /\ LET j == Head(queue)
           r == Body(j)
           a == Appends(version, j.kind, r)
       IN  /\ written' = IF r.wrote THEN written \cup {j} ELSE written
           /\ markers' = IF j.kind \in {"photoFetch", "sequenceFetch"} /\ MarkerCreated(r)
                         THEN markers \cup {j} ELSE markers
           /\ IF j.kind = "photosMeta"
              THEN /\ photosChanged' = Changed(j)
                   /\ photos' = IF r.err THEN photos ELSE Manifest
              ELSE UNCHANGED <<photosChanged, photos>>
           /\ IF j.kind = "sequenceMeta"
              THEN /\ wpc' = [wpc EXCEPT ![w] = "mapwrite"]
                   /\ wjob' = [wjob EXCEPT ![w] = j]
                   /\ UNCHANGED <<res, phaseFailed, stored, wsnap>>
              ELSE IF a = "append"
              THEN /\ wsnap' = [wsnap EXCEPT ![w] = Coll(j.kind)]
                   /\ wpc' = [wpc EXCEPT ![w] = "append"]
                   /\ wjob' = [wjob EXCEPT ![w] = j]
                   /\ UNCHANGED <<res, phaseFailed, stored>>
              ELSE IF a = "mutex"
              THEN /\ wpc' = [wpc EXCEPT ![w] = "lock"]
                   /\ wjob' = [wjob EXCEPT ![w] = j]
                   /\ UNCHANGED <<res, phaseFailed, stored, wsnap>>
              ELSE /\ Record(j, r)
                   /\ UNCHANGED <<wsnap, wjob, wpc>>
    /\ UNCHANGED <<inputs, drv, articles, fragments, passages, talks, sequences,
                   articlesChanged, fragmentsChanged, passagesChanged,
                   sequencesChanged, mu>>

\* m[key] = val
MapStore(m, key, val) ==
    [s \in DOMAIN m \cup {key} |-> IF s = key THEN val ELSE m[s]]

\* Another worker is inside its stores to the two maps.
MapRace(w) == \E w2 \in Workers \ {w} : wpc[w2] = "mapwrite"

\* `sequencesChanged[slug], err = myaml.ParseFile(...)` and
\* `sequences[slug] = photosWrapper.Photos`: no lock is held.  Stores of
\* two goroutines to one map are a data race: an entry may not arrive.
MapWrite(w) ==
    /\ wpc[w] = "mapwrite"
    /\ LET j == wjob[w]
           r == Body(j)
       IN  /\ \E arrives \in (IF MapRace(w) THEN BOOLEAN ELSE {TRUE}) :
                /\ sequencesChanged' =
                        IF arrives THEN MapStore(sequencesChanged, j.seq, Changed(j))
                        ELSE sequencesChanged
                /\ sequences' =
                        IF arrives /\ ~r.err THEN MapStore(sequences, j.seq, Manifest)
                        ELSE sequences
           /\ Finish(w, j, r)
    /\ UNCHANGED <<inputs, drv, queue, wsnap, articles, fragments, passages, talks,
                   photos, articlesChanged, fragmentsChanged, passagesChanged,
                   photosChanged, mu, markers, written>>

\* The store of `xs = append(xs, x)`: the slice read earlier plus the item.
AppendWrite(w) ==
    /\ wpc[w] = "append"
    /\ LET j == wjob[w]
       IN  /\ SetColl(j.kind, Append(wsnap[w], j.i))
           /\ Finish(w, j, Body(j))
    /\ wsnap' = [wsnap EXCEPT ![w] = <<>>]
    /\ UNCHANGED <<inputs, drv, queue, photos, sequences, flags, mu, markers, written>>

\* The runtime finds two goroutines storing to one map ("fatal error:
\* concurrent map writes"): the process ends, build never returns.
MapFault ==
    /\ \E w \in Workers : wpc[w] = "mapwrite" /\ MapRace(w)
    /\ Return("crash")
    /\ queue' = <<>>
    /\ wjob' = [w \in Workers |-> NoJob]
    /\ wpc' = [w \in Workers |-> "idle"]
    /\ wsnap' = [w \in Workers |-> <<>>]
    /\ UNCHANGED <<inputs, stored, seqTodo, seqCur, failedStep, waits, waitRes,
                   pageForced, db, res, phaseFailed, colls, flags, mu, markers, written>>

\* mu.Lock(), insertOrReplaceArticle, articlesChanged = boolPointer(true)
Lock(w) ==
    /\ wpc[w] = "lock"
    /\ LET j == wjob[w]
       IN  /\ mu[j.kind] = 0
           /\ mu' = [mu EXCEPT ![j.kind] = w]
           /\ SetColl(j.kind, insertOrReplaceArticle(Coll(j.kind), j.i))
           /\ articlesChanged' = IF j.kind = "article" THEN SetChanged(articlesChanged)
                                 ELSE articlesChanged
           /\ fragmentsChanged' = IF j.kind = "fragment" THEN SetChanged(fragmentsChanged)
                                  ELSE fragmentsChanged
    /\ wpc' = [wpc EXCEPT ![w] = "unlock"]
    /\ UNCHANGED <<inputs, stored, drv, queue, wjob, wsnap, res, phaseFailed,
                   photos, sequences, passagesChanged, photosChanged, sequencesChanged,
                   markers, written>>

\* mu.Unlock() and the return of the renderer
Unlock(w) ==
    /\ wpc[w] = "unlock"
    /\ LET j == wjob[w]
       IN  /\ mu' = [mu EXCEPT ![j.kind] = 0]
           /\ Finish(w, j, Body(j))
    /\ UNCHANGED <<inputs, drv, queue, wsnap, colls, flags, markers, written>>

Driver ==
    \/ DriverSetup
    \/ DriverList
    \/ DriverEnqueue
    \/ DriverWait
    \/ DriverSort
    \/ DriverEnqueuePhotoFetch
    \/ DriverSequencesRange
    \/ DriverSequenceDirs
    \/ DriverEnqueueSequence
    \/ DriverSequencesDone
    \/ DriverReturn

Worker ==
    \E w \in Workers : Run(w) \/ MapWrite(w) \/ AppendWrite(w) \/ Lock(w) \/ Unlock(w)

Runtime == MapFault

Next == Driver \/ Worker \/ Runtime

Spec == Init /\ [][Next]_vars

----------------------------------------------------------------------------
\* Properties

Queued(j) == \E n \in 1..Len(queue) : queue[n] = j
InFlight(j) == \E w \in Workers : wjob[w] = j
Pending(j) == Queued(j) \/ InFlight(j)
\* j was sent on c.Jobs at some point of the invocation
Enqueued(j) == Pending(j) \/ res[j] # "unset"

Returned == ret # "running"
AggregateJobs == {j \in Sources(version) : j.kind \in AggregateKinds}
Failed(j) == res[j] \in {"err", "skiperr"}

\* C1: no phase-2 job is enqueued before the first c.Wait() has returned,
\* and no phase-2 job is queued, running or done while a phase-1 job is
\* still queued or in flight.
C1_Phase2AfterBarrier ==
    \A j2 \in Phase2Jobs :
        Enqueued(j2) =>
            /\ waits >= 1
            /\ \A j1 \in Phase1Jobs : ~Pending(j1)

\* A phase-2 job has run after a phase-1 job appended to its collection.
C1_Witness ==
    /\ \E j2 \in Phase2Jobs : res[j2] # "unset"
    /\ \E j1 \in AggregateJobs : res[j1] = "ok" /\ j1.i \in Elements(Coll(j1.kind))

\* C2: when the first c.Wait() reports failure, no phase-2 job is enqueued
\* in the invocation.
C2_NoPhase2AfterFailure ==
    waitRes = "failed" => \A j \in Phase2Jobs : ~Enqueued(j)

\* The barrier reported a failed phase-1 job and build has returned.
C2_Witness ==
    /\ waitRes = "failed"
    /\ Returned
    /\ \E j \in Phase1Jobs : Failed(j)

\* C3: when the first c.Wait() reports failure, the value build returns
\* indicates failure.
C3_WaitFailureReported ==
    waitRes = "failed" /\ Returned => ret = "err"

\* C4: when a phase-0 step (configuration decode, database, common
\* directories, common symlinks) fails, no job is enqueued or run.
C4_NoJobAfterSetupFailure ==
    failedStep # "none" =>
        /\ PoolDrained
        /\ \A j \in AllJobs : res[j] = "unset"

\* A phase-0 step failed and build has returned.
C4_Witness ==
    /\ failedStep \in SetupSteps
    /\ Returned

\* C5: when the creation of a common directory or symlink fails, build
\* returns a failure.
C5_SetupErrorReported ==
    failedStep \in {"dirs", "symlinks"} /\ Returned => ret = "err"

\* A worker is between the read and the store of an append to the
\* collection of kind k, or inside the critical section that inserts into it.
Appending(w, k) ==
    /\ wjob[w].kind = k
    /\ wpc[w] \in {"append", "unlock"}

\* C6: no two phase-1 jobs append to the same aggregate collection at the
\* same time.
C6_AppendsExcluded ==
    \A k \in AggregateKinds : \A w1, w2 \in Workers :
        Appending(w1, k) /\ Appending(w2, k) => w1 = w2

\* C7: after the phase-1 barrier every aggregate collection holds exactly
\* as many items as jobs of its kind produced: the jobs that validated their
\* item and returned executed without error.  No append is lost and no
\* failed item is added.  (In part_001 a job counted as skipped has
\* validated and returned its item as well.)
Produced(j) ==
    \/ res[j] = "ok"
    \/ version = "part001" /\ res[j] = "skip"

C7_NoAppendLost ==
    waits >= 1 =>
        \A k \in AggregateKinds :
            Len(Coll(k)) = Cardinality({j \in AggregateJobs : j.kind = k /\ Produced(j)})

\* C8: after the phase-1 barrier, a valid item whose source is unchanged,
\* in a context that is not forced, is in its aggregate collection.
C8_UnchangedStillAggregated ==
    waits >= 1 =>
        \A j \in AggregateJobs :
            ~ChangedAtStart(j) /\ ~forced /\ Quality(j) = "ok"
                => j.i \in Elements(Coll(j.kind))

\* C9: after the phase-1 barrier, an item whose job returned an error is
\* in no aggregate collection and every other valid item is in its own.
C9_OnlyFailedExcluded ==
    waits >= 1 =>
        \A j \in AggregateJobs :
            /\ Failed(j) => j.i \notin Elements(Coll(j.kind))
            /\ Quality(j) = "ok" => j.i \in Elements(Coll(j.kind))

\* The force flag of the context a job of kind k is given.
ContextForced(k) == IF k = "page" THEN pageForced ELSE forced

RendererKinds == {"article", "fragment", "passage", "talk", "page", "hello",
                  "javascripts", "stylesheets"}

\* C10: a content renderer job whose source is unchanged, in a context
\* that is not forced, reports executed=false and writes nothing.
C10_UnchangedSkips ==
    \A j \in Sources(version) :
        /\ j.kind \in RendererKinds
        /\ res[j] # "unset"
        /\ ~ChangedAtStart(j)
        /\ ~ContextForced(j.kind)
        => res[j] = "skip" /\ j \notin written

\* A rerun in which no source has changed and the context is not forced.
NoSourceChanged ==
    /\ ~firstRun
    /\ ~forced
    /\ \A r \in Sources(version) : ~ChangedAtStart(r)

\* C11: in a rerun with no changed source and force=false every job that
\* ran reports executed=false and no output file is written.
C11_RerunAllSkip ==
    NoSourceChanged =>
        /\ \A j \in AllJobs : res[j] \in {"unset", "skip"}
        /\ written = {}

\* A job of kind k rendered its item anew in phase 1 and succeeded.
Rerendered(k) ==
    \E j \in AggregateJobs : j.kind = k /\ res[j] = "ok" /\ j \in written

\* The phase-2 jobs gated by the changed flag of kind k.
GatedBy(k) ==
    IF k = "article"
    THEN {J(g, 0, 1) : g \in {"articlesIndex", "articlesFeed", "articlesFeedPostgres"}}
    ELSE {J(g, 0, 1) : g \in {"fragmentsIndex", "fragmentsFeed"}}

\* The revision has changed flags and phase-2 jobs that test them.
HasChangedFlags ==
    \E n \in 1..Len(Program(version)) : Program(version)[n] = "articlesIndex"

\* C12: when an article (fragment) job rendered its item anew in phase 1,
\* articlesChanged (fragmentsChanged) is true after the barrier and none of
\* the phase-2 index and feed jobs of that type skips.
C12_FlagCarried ==
    waits >= 1 /\ HasChangedFlags =>
        /\ Rerendered("article") =>
              articlesChanged /\ \A j \in GatedBy("article") : res[j] # "skip"
        /\ Rerendered("fragment") =>
              fragmentsChanged /\ \A j \in GatedBy("fragment") : res[j] # "skip"

----------------------------------------------------------------------------
\* One job on its own: the job closure of one source, run by a worker for
\* every combination of revision, force flag, first-run flag, answer of the
\* change tracker and quality of the source.  The driver takes no step.

\* The fetch + resize jobs of a revision.
FetchJobs(v) ==
    IF \E n \in 1..Len(Program(v)) : Program(v)[n] = "photoFetch"
    THEN {j \in Phase2Jobs : j.kind \in {"photoFetch", "sequenceFetch"}}
    ELSE {}

InitJob ==
    /\ version \in Versions
    /\ forced \in BOOLEAN
    /\ firstRun \in BOOLEAN
    /\ focus \in (Sources(version) \ {PagesMeta}) \cup FetchJobs(version)
    /\ fq \in QualitiesOf(focus.kind)
    /\ at = DiscoveryTimes
    /\ call = NoCall /\ result = NotReturned
    /\ stored \in {{}, {focus}}
    /\ db \in (IF version = "part000" THEN {"nil", "open"} ELSE {"unset"})
    /\ ip = 0 /\ idx = 0 /\ seqTodo = {} /\ seqCur = 0
    /\ ret = "running" /\ failedStep = "none"
    /\ waits = 0 /\ waitRes = "none"
    /\ pageForced \in (IF focus.kind = "page" THEN {forced, TRUE} ELSE {FALSE})
    /\ queue = <<focus>>
    /\ wjob = [w \in Workers |-> NoJob]
    /\ wpc = [w \in Workers |-> "idle"]
    /\ wsnap = [w \in Workers |-> <<>>]
    /\ res = [j \in AllJobs |-> "unset"]
    /\ phaseFailed = FALSE
    /\ articles = <<>> /\ fragments = <<>> /\ passages = <<>> /\ talks = <<>>
    /\ photos = <<>> /\ sequences = EmptyMap
    /\ articlesChanged = InitArticlesChanged(version)
    /\ fragmentsChanged = InitFragmentsChanged(version)
    /\ passagesChanged = InitPassagesChanged(version)
    /\ photosChanged = FALSE
    /\ sequencesChanged = EmptyMap
    /\ mu = [k \in {"article", "fragment"} |-> 0]
    /\ markers \in (IF focus \in FetchJobs(version) THEN {{}, {focus}} ELSE {{}})
    /\ written = {}

NextJob == Worker

SpecJob == InitJob /\ [][NextJob]_vars

\* C13: a job whose item misses a required field returns an error,
\* whatever the tracker answers for its source; it never reports a skip.
C13_InvalidAlwaysFails ==
    \A j \in AggregateJobs :
        Quality(j) = "invalid" /\ res[j] # "unset" => res[j] = "err"

\* A job of part_000 that has no database to read from: it returns
\* executed=false for want of a database, not for an unchanged input.
NoDatabase(j) == j.kind \in {"reading", "runs", "twitter"} /\ db # "open"

\* C14: when the build context is forced, no job of the run reports
\* executed=false because its input or its changed flag is unchanged.
C14_ForcedExecutesAll ==
    forced => \A j \in AllJobs : res[j] = "skip" => NoDatabase(j)

\* C15: deriving a forced context leaves the parent as it was: in a build
\* that is not forced, a renderer that parsed its source with
\* c.ForcedContext() still skips the render of an unchanged source, also
\* after the driver derived a forced context for the pages.
C15_ParentKeepsFlag ==
    ~forced =>
        \A j \in Sources(version) :
            /\ j.kind \in {"article", "fragment", "passage"}
            /\ res[j] # "unset"
            /\ ~ChangedAtStart(j)
            => j \notin written

\* The driver has derived a forced context for the pages, the build
\* context is not forced, and an article job parsed an unchanged source
\* with a forced derivative and rendered nothing.
C15_Witness ==
    /\ ~forced
    /\ pageForced
    /\ version = "main"
    /\ \E j \in Sources(version) :
          j.kind = "article" /\ res[j] = "ok" /\ ~ChangedAtStart(j) /\ j \notin written

PageJobs == {j \in Sources(version) : j.kind = "page"}

\* C16: when pages/_meta.yaml has changed, every page job is given a
\* forced context and reports executed=true, and a page job that succeeds
\* has rendered its page, whatever the tracker answers for its own source.
C16_MetaChangeForcesPages ==
    ChangedAtStart(PagesMeta) =>
        \A j \in PageJobs :
            res[j] # "unset" =>
                /\ pageForced
                /\ res[j] \in {"ok", "err"}
                /\ res[j] = "ok" => j \in written

\* C17: a failed job cancels none of its siblings: when the phase-1
\* barrier returns, every job enqueued in phase 1 has run to its end, and
\* if one of them failed the phase is marked failed.
C17_SiblingsRun ==
    waits >= 1 =>
        /\ \A j \in Sources(version) \ {PagesMeta} : res[j] # "unset"
        /\ (\E j \in Phase1Jobs : Failed(j)) => waitRes = "failed"

\* The first job of the phase failed and a job behind it in the queue
\* rendered its target before the barrier returned.
C17_Witness ==
    /\ waits >= 1
    /\ Failed(J("article", 0, 1))
    /\ \E j \in Phase1Jobs : res[j] = "ok" /\ j \in written

\* C18: a job that found its source changed and then failed leaves the
\* tracker's record as it was: the source is still changed for the next run.
C18_FailureKeepsRecord ==
    \A j \in Phase1Jobs :
        Failed(j) /\ j \in Sources(version) \ {PagesMeta} /\ ChangedAtStart(j)
            => Changed(j)

\* The hello job, or a talk job, found its source changed and failed.
C18_Witness ==
    \E j \in Sources(version) \ {PagesMeta} :
        /\ j.kind \in {"hello", "talk"}
        /\ res[j] = "err"
        /\ ChangedAtStart(j)
        /\ Changed(j)

\* C19: a content renderer job whose source changed, or whose context is
\* forced, and which returns no error has performed its transform, and the
\* tracker then holds the current fingerprint of the source, so that the
\* source is unchanged for the run that follows.
C19_TransformThenCommit ==
    \A j \in Sources(version) \ {PagesMeta} :
        /\ j.kind \in RendererKinds
        /\ res[j] \in {"ok", "skip"}
        /\ ChangedAtStart(j) \/ ContextForced(j.kind)
        => j \in written /\ ~Changed(j)

\* The driver has passed its sort step.
AfterSort ==
    /\ \E n \in 1..Len(Program(version)) : Program(version)[n] = "sort"
    /\ waitRes = "ok"
    /\ \/ ip = 0
       \/ \E n \in 1..Len(Program(version)) : Program(version)[n] = "sort" /\ ip > n

Descending(s) ==
    \A a, b \in 1..Len(s) : a < b => ~Before(PublishedAt(s[a]), PublishedAt(s[b]))

----------------------------------------------------------------------------
\* One function on its own: a function of the program applied to a bounded
\* collection.  call.arg is the collection in the order the phase-1 jobs
\* appended it; for a sort, call.alt is the same collection as a second run
\* with another completion order appended it.

Functions == {"sortArticles", "sortPhotos", "groupArticlesByYear", "renderArticlesFeed",
              "selectRandomPhoto", "fetchAndResizePhoto"}

\* Collections of at most MaxItems distinct items, in any order.
Lists ==
    {s \in UNION {[1..n -> ItemIds] : n \in 0..MaxItems} :
        \A a, b \in 1..Len(s) : a # b => s[a] # s[b]}

\* Articles carry a timestamp (validate, main.go 762); a photo of the
\* manifest may have none.
TimesOf(fn) == IF fn = "sortPhotos" THEN Times \cup {NilTime} ELSE Times

\* t.Year(): the calendar year at the offset the timestamp carries.
Year(t) == (t.instant + t.zone) \div YearLength

RECURSIVE GroupFrom(_, _, _)
GroupFrom(s, n, years) ==
    IF n > Len(s) THEN years
    ELSE LET y == Year(PublishedAt(s[n]))
         IN  IF years = <<>> \/ years[Len(years)].Year # y
             THEN GroupFrom(s, n + 1,
                            Append(years, [Year |-> y, Articles |-> <<s[n]>>]))
             ELSE GroupFrom(s, n + 1,
                            [years EXCEPT ![Len(years)].Articles = Append(@, s[n])])

\* A grouping that leaves the first article out.
groupArticlesSkipFirst(s) == GroupFrom(s, 2, <<>>)

groupArticlesByYear(s) == GroupFrom(s, 1, <<>>)

\* The functions whose result depends on the timestamps.
TimedFunctions == {"sortArticles", "sortPhotos", "groupArticlesByYear"}

\* A sort, for the collections two runs appended in different orders.
SortCalls ==
    {c \in [fn : {"sortArticles", "sortPhotos"}, arg : Lists, alt : Lists,
            marked : {{}}, tag : {FALSE}, n : {0}] : IsPermutation(c.alt, c.arg)}

GroupCalls ==
    {[fn |-> "groupArticlesByYear", arg |-> s, alt |-> s, marked |-> {},
      tag |-> FALSE, n |-> 0] : s \in Lists}

\* The collection as the driver sorted it: newest first.
SortedLists == {s \in Lists : \A a, b \in 1..Len(s) : a < b => s[a] > s[b]}

\* A feed of the sorted articles: with or without a tag, for every set
\* of tagged articles and every conf.NumAtomEntries up to MaxItems.
FeedCalls ==
    {[fn |-> "renderArticlesFeed", arg |-> s, alt |-> s, marked |-> m,
      tag |-> t, n |-> k] :
        s \in SortedLists, m \in SUBSET ItemIds, t \in BOOLEAN, k \in 0..MaxItems}

RECURSIVE FeedFrom(_, _, _, _, _, _)
\* The loop of renderArticlesFeed from index i (counted from 1) on.
FeedFrom(s, i, tag, marked, n, entries) ==
    IF i > Len(s) THEN entries
    ELSE IF tag /\ s[i] \notin marked
         THEN FeedFrom(s, i + 1, tag, marked, n, entries)
    ELSE IF i - 1 >= n THEN entries
    ELSE FeedFrom(s, i + 1, tag, marked, n, Append(entries, s[i]))

\* feed.Entries of renderArticlesFeed (renderFragmentsFeed: the same loop
\* without a tag).
renderArticlesFeed(s, tag, marked, n) == FeedFrom(s, 1, tag, marked, n, <<>>)

\* The photos the home page chooses from: more than selectRandomPhoto
\* takes as recent ones.
MaxPhotos == 23

\* numRecent of selectRandomPhoto.
numRecent == 20

\* The sorted photos, n of them: photo n is the newest.
SortedPhotos(n) == [k \in 1..n |-> n + 1 - k]

\* selectRandomPhoto on the sorted photos; marked are the photos with
\* KeepInHomeRotation, a field the function reads of the older photos only.
PhotoCalls ==
    {[fn |-> "selectRandomPhoto", arg |-> SortedPhotos(k), alt |-> SortedPhotos(k),
      marked |-> m, tag |-> FALSE, n |-> 0] :
        k \in 0..MaxPhotos, m \in SUBSET (1..(MaxPhotos - numRecent))}

\* olderPhotos := photos[numRecent : len(photos)-1], as positions from 1.
OlderKeptExceptLast(ps) == (numRecent + 1)..(Len(ps) - 1)

\* The older photos up to the end of the list.
OlderKept(ps) == (numRecent + 1)..Len(ps)

RECURSIVE KeepFrom(_, _, _, _, _)
\* The range loop over olderPhotos from position k to position last.
\* randomPhotos is a slice of the array of photos, r items long, with
\* room left in the array: append stores at position r + 1 of the array.
KeepFrom(array, r, k, last, marked) ==
    IF k > last THEN [array |-> array, len |-> r]
    ELSE IF array[k] \in marked
         THEN KeepFrom([array EXCEPT ![r + 1] = array[k]], r + 1, k + 1, last, marked)
         ELSE KeepFrom(array, r, k + 1, last, marked)

\* randomPhotos before the random choice, and the array behind photos.
RandomPhotos(ps, marked, older) ==
    LET recent == IF Len(ps) < numRecent THEN Len(ps) ELSE numRecent
    IN  IF older = {} THEN [array |-> ps, len |-> recent]
        ELSE KeepFrom(ps, recent, numRecent + 1,
                      CHOOSE k \in older : \A x \in older : x <= k, marked)

\* The photos selectRandomPhoto may return; 0 is nil.
selectRandomPhoto(ps, marked) ==
    IF Len(ps) < 1 THEN {0}
    ELSE LET r == RandomPhotos(ps, marked, OlderKeptExceptLast(ps))
         IN  {r.array[x] : x \in 1..r.len}

\* Slugs of photos. A string is the sequence of its pieces, so that
\* "a" + "_large.jpg" and "a_large" + ".jpg" are the same file name.
Slugs == {<<"a">>, <<"b">>, <<"a", "_large">>}

\* TempDir, as the directory of a path.
TempDir == <<"tmp">>

\* The directories build passes to fetchAndResizePhoto: that of the main
\* manifest and one per sequence.
PhotoDirs ==
    {<<"content", "photographs">>}
        \cup {<<"content", "photographs", "sequences", q>> : q \in SeqSlugs}

\* A photo of a manifest, with the directory its job is given; i is its
\* position in the manifest.
FetchedPhotos == [dir : PhotoDirs, i : 1..2, slug : Slugs]

\* Two fetch+resize jobs of one run: two photos without marker.
FetchCalls ==
    {[fn |-> "fetchAndResizePhoto", arg |-> pq, alt |-> <<>>, marked |-> {},
      tag |-> FALSE, n |-> 0] :
        pq \in {x \in FetchedPhotos \X FetchedPhotos :
                    x[1].dir # x[2].dir \/ x[1].i # x[2].i}}

\* filepath.Join(dir, name).
Join(dir, name) == [dir |-> dir, name |-> name]

\* originalPath of fetchAndResizePhoto.
originalPath(photo) == Join(TempDir, photo.slug \o <<"_original", ".jpg">>)

\* The targets of resizeMatrix.
resizeMatrix(photo) ==
    {Join(photo.dir, photo.slug \o suffix) :
        suffix \in {<<".jpg">>, <<"@2x", ".jpg">>, <<"_large", ".jpg">>,
                    <<"_large", "@2x", ".jpg">>}}

\* The files a fetch+resize job without marker writes: the original it
\* downloads and the resized images (the marker is markerPath).
FilesWritten(photo) == {originalPath(photo)} \cup resizeMatrix(photo)

InitCall ==
    /\ version = "main" /\ forced = FALSE /\ firstRun = FALSE
    /\ focus = NoJob /\ fq = "ok"
    /\ call \in SortCalls \cup GroupCalls \cup FeedCalls \cup PhotoCalls \cup FetchCalls
    /\ at \in IF call.fn \in TimedFunctions
             THEN {f \in [ItemIds -> TimesOf(call.fn)] :
                    \A i \in ItemIds \ Elements(call.arg) : f[i] = DiscoveryTimes[i]}
             ELSE {DiscoveryTimes}
    /\ result = NotReturned
    /\ stored = {}
    /\ db = "unset"
    /\ ip = 0 /\ idx = 0 /\ seqTodo = {} /\ seqCur = 0
    /\ ret = "running" /\ failedStep = "none"
    /\ waits = 0 /\ waitRes = "none" /\ pageForced = FALSE
    /\ queue = <<>>
    /\ wjob = [w \in Workers |-> NoJob]
    /\ wpc = [w \in Workers |-> "idle"]
    /\ wsnap = [w \in Workers |-> <<>>]
    /\ res = [j \in AllJobs |-> "unset"]
    /\ phaseFailed = FALSE
    /\ articles = <<>> /\ fragments = <<>> /\ passages = <<>> /\ talks = <<>>
    /\ photos = <<>> /\ sequences = EmptyMap
    /\ articlesChanged = TRUE /\ fragmentsChanged = TRUE
    /\ passagesChanged = TRUE /\ photosChanged = FALSE
    /\ sequencesChanged = EmptyMap
    /\ mu = [k \in {"article", "fragment"} |-> 0]
    /\ markers = {}
    /\ written = {}

Applied == <<version, forced, firstRun, focus, fq, at, call, stored, drv, pool,
             colls, flags, mu, markers, written>>

CallSortArticles ==
    /\ call.fn = "sortArticles" /\ ~result.done
    /\ result' \in {Returns(o, a) :
                        o \in sortArticles(call.arg), a \in sortArticles(call.alt)}
    /\ UNCHANGED Applied

CallSortPhotos ==
    /\ call.fn = "sortPhotos" /\ ~result.done
    /\ IF Panics(call.arg)
       THEN result' = Panic
       ELSE result' \in {Returns(o, a) :
                            o \in sortPhotos(call.arg), a \in sortPhotos(call.alt)}
    /\ UNCHANGED Applied

CallGroupArticlesByYear ==
    /\ call.fn = "groupArticlesByYear" /\ ~result.done
    /\ result' = Returns(groupArticlesByYear(call.arg), <<>>)
    /\ UNCHANGED Applied

CallRenderArticlesFeed ==
    /\ call.fn = "renderArticlesFeed" /\ ~result.done
    /\ result' = Returns(renderArticlesFeed(call.arg, call.tag, call.marked, call.n), <<>>)
    /\ UNCHANGED Applied

\* rand.Intn chooses; the caller's photos are the array afterwards.
CallSelectRandomPhoto ==
    /\ call.fn = "selectRandomPhoto" /\ ~result.done
    /\ \E photo \in selectRandomPhoto(call.arg, call.marked) :
        result' = Returns(photo,
            RandomPhotos(call.arg, call.marked, OlderKeptExceptLast(call.arg)).array)
    /\ UNCHANGED Applied

\* The files the two jobs write.
CallFetchAndResizePhoto ==
    /\ call.fn = "fetchAndResizePhoto" /\ ~result.done
    /\ result' = Returns(<<FilesWritten(call.arg[1]), FilesWritten(call.arg[2])>>, <<>>)
    /\ UNCHANGED Applied

NextCall ==
    \/ CallFetchAndResizePhoto
    \/ CallSelectRandomPhoto
    \/ CallSortArticles
    \/ CallSortPhotos
    \/ CallGroupArticlesByYear
    \/ CallRenderArticlesFeed

SpecCall == InitCall /\ [][NextCall]_vars

SortedArticles == call.fn = "sortArticles" /\ result.done

\* Item x stands before item y in s.
Precedes(s, x, y) ==
    \E a, b \in 1..Len(s) : a < b /\ s[a] = x /\ s[b] = y

SameTime(x, y) == ~Less(x, y) /\ ~Less(y, x)

\* C21: sortArticles is stable: two articles with equal timestamps stand
\* in its result in the order they had in the collection it was given, so
\* a collection already in descending order comes back unchanged.
C21_SortStable ==
    SortedArticles =>
        /\ \A x, y \in Elements(call.arg) :
                SameTime(x, y) /\ Precedes(call.arg, x, y)
                    => Precedes(result.out, x, y)
        /\ Descending(call.arg) => result.out = call.arg


\* C22: two runs that append the same articles in different completion
\* orders hand the same sequence to the phase-2 jobs: the sorted
\* collection does not depend on the order of the appends.
C22_OrderIndependent ==
    SortedArticles => result.out = result.alt


Grouped == call.fn = "groupArticlesByYear" /\ result.done

RECURSIVE Flatten(_, _)
\* The item lists of groups n.. of years, one after the other.
Flatten(years, n) ==
    IF n > Len(years) THEN <<>> ELSE years[n].Articles \o Flatten(years, n + 1)

\* C23: the item lists of the groups groupArticlesByYear returns, taken in
\* group order, are the input sequence, and every item lies in a group
\* whose Year is the year of its publish time.
C23_GroupsPartitionInput ==
    Grouped =>
        /\ Flatten(result.out, 1) = call.arg
        /\ \A g \in 1..Len(result.out) :
                \A x \in Elements(result.out[g].Articles) :
                    Year(PublishedAt(x)) = result.out[g].Year

\* Three articles were grouped into two years, one of them holding two.
C23_Witness ==
    /\ Grouped
    /\ Len(call.arg) = 3
    /\ Len(result.out) = 2
    /\ \E g \in 1..2 : Len(result.out[g].Articles) = 2

\* C24: for an input in descending order of publish time the groups
\* have strictly decreasing years, so no year has two groups.
C24_OneGroupPerYear ==
    Grouped /\ Descending(call.arg) =>
        \A g, h \in 1..Len(result.out) :
            g < h => result.out[g].Year > result.out[h].Year


\* C25: a fetch + resize job that finds the marker file of its photo
\* reports executed=false and no error, writes no file and creates no
\* marker, also when the fetch or the resize would have failed.
C25_MarkerSkips ==
    [][\A j \in FetchJobs(version) :
            j \in markers /\ res[j] = "unset" /\ res'[j] # "unset"
                => res'[j] = "skip" /\ written' = written /\ markers' = markers]_vars

\* A job with a marker has been skipped although its photo cannot be fetched.
C25_Witness ==
    \E j \in FetchJobs(version) :
        j \in markers /\ Quality(j) = "parsefail" /\ res[j] = "skip" /\ j \notin written


\* A worker is inside its stores to sequencesChanged and sequences.
MapWriting(w) == wpc[w] = "mapwrite"

\* C26: the stores of the phase-1 jobs to the changed flags and to the
\* sequencesChanged and sequences maps are synchronized: no two jobs
\* store to the same map at the same time.
C26_MapWritesExcluded ==
    \A w1, w2 \in Workers : MapWriting(w1) /\ MapWriting(w2) => w1 = w2


\* C27: no input makes the program panic: a timestamp missing from a
\* photo is reported as an error value, never dereferenced.
C27_NoPanic ==
    result.done => ~result.panic


\* C28: c.Wait() is a barrier: in the step in which it returns to
\* the driver no job is queued or in flight, and every job enqueued before
\* the call has reported its result.
C28_WaitIsBarrier ==
    [][waits' = waits + 1 =>
            /\ \A j \in AllJobs : ~Pending(j)
            /\ \A j \in Sources(version) \ {PagesMeta} : res[j] # "unset"]_vars

\* The pool took the jobs of the next phase: after the barrier one
\* phase-2 job has run while another waits in the queue.
C28_Witness ==
    /\ waits = 1
    /\ \E j \in Phase2Jobs : Queued(j)
    /\ \E j \in Phase2Jobs : res[j] # "unset"

\* C29: c.Wait() returns false exactly when a job enqueued since the
\* previous barrier returned an error; once it has returned, the errors of
\* the phase it closed no longer count.
C29_WaitResult ==
    waits >= 1 =>
        /\ waitRes = "failed" <=> \E j \in Phase1Jobs : Failed(j)
        /\ phaseFailed <=> \E j \in Phase2Jobs : Failed(j)

\* The barrier returned false for a phase in which the job that failed was
\* not the last to finish, and the pool starts its next phase unmarked.
C29_Witness ==
    /\ waits = 1
    /\ waitRes = "failed"
    /\ Failed(J("article", 0, 1))
    /\ res[J("article", 0, 2)] = "ok"
    /\ ~phaseFailed


\* C30: build waits on the barrier again after the phase-2 jobs: it has
\* not returned nil while a phase-2 job is still queued or in flight.
C30_ReturnAfterPhase2 ==
    ret = "nil" => \A j \in Phase2Jobs : ~Pending(j)


----------------------------------------------------------------------------
\* Progress: builds whose sources are all at their default, with the
\* driver goroutine and every worker goroutine scheduled fairly.

InitLive == Init /\ focus = NoJob

WorkerStep(w) == Run(w) \/ MapWrite(w) \/ AppendWrite(w) \/ Lock(w) \/ Unlock(w)

SpecLive ==
    /\ InitLive /\ [][Next]_vars
    /\ WF_vars(Driver)
    /\ \A w \in Workers : WF_vars(WorkerStep(w))

\* build has returned a value to its caller.
Completed == ret \in {"nil", "err"}

\* C31: no job waits on another: build eventually returns, and from some
\* point on no job is queued or in flight, every job that was enqueued
\* having run to its end.
C31_EveryJobRuns ==
    /\ <>Completed
    /\ <>[](\A j \in AllJobs : ~Pending(j))


\* C32: on the error returns of build, taken after some jobs were
\* enqueued, no job of the invocation is still queued or in flight at
\* the moment build returns.
C32_ErrorReturnAfterJobs ==
    [][ret = "running" /\ ret' = "err" => \A j \in AllJobs : ~Pending(j)]_vars


\* The driver is past every step of its program that creates the common
\* directories and symlinks.
SetupDone ==
    \A n \in 1..Len(Program(version)) :
        Program(version)[n] \in {"dirs", "symlinks"} => ip = 0 \/ ip > n

\* C33: a job is enqueued only after the driver created the common
\* directories and symlinks, all of them successfully; a job of a sequence
\* is enqueued only after the two directories of its sequence were created.
C33_DirsBeforeJobs ==
    /\ (failedStep = "none" /\ SetupDone) \/ (\A j \in AllJobs : ~Enqueued(j))
    /\ \A s \in seqTodo :
            \A j \in Phase2Jobs :
                j.kind \in {"sequencePage", "sequenceFetch"} /\ j.seq = s => ~Enqueued(j)

\* A job of a sequence is queued after the directories of the sequence
\* were created, in a build that created its common directories.
C33_Witness ==
    /\ failedStep = "none"
    /\ \E j \in Phase2Jobs : j.kind = "sequencePage" /\ Queued(j)
    /\ \E n \in 1..Len(Program(version)) : Program(version)[n] = "dirs"


\* C34: the marker of a photo exists after its fetch + resize job exactly
\* if the job skipped on it or ran the fetch and every resize without
\* error; a job whose fetch or resize fails reports executed=true with
\* the error and leaves no marker, so the next run tries the photo again.
C34_MarkerAfterSuccess ==
    \A j \in FetchJobs(version) :
        res[j] # "unset" =>
            /\ j \in markers <=> res[j] \in {"ok", "skip"}
            /\ j \notin markers <=> res[j] = "err"
            /\ res[j] = "ok" => Quality(j) = "ok"

\* A resize failed: the job reported the error and there is no marker.
C34_Witness ==
    \E j \in FetchJobs(version) :
        Quality(j) = "renderfail" /\ res[j] = "err" /\ j \notin markers


FeedRendered == call.fn = "renderArticlesFeed" /\ result.done

RECURSIVE Eligible(_, _)
\* The items of s the feed may hold, in the order of s.
Eligible(s, i) ==
    IF i > Len(s) THEN <<>>
    ELSE IF call.tag /\ s[i] \notin call.marked THEN Eligible(s, i + 1)
    ELSE <<s[i]>> \o Eligible(s, i + 1)

Min(a, b) == IF a < b THEN a ELSE b

\* C35: a feed holds the first min(NumAtomEntries, number of eligible
\* items) eligible items of the sorted collection, newest first; with a
\* tag the eligible items are the articles that carry it.
C35_FeedEntries ==
    FeedRendered =>
        LET e == Eligible(call.arg, 1)
        IN  result.out = SubSeq(e, 1, Min(call.n, Len(e)))


PhotoSelected == call.fn = "selectRandomPhoto" /\ result.done

\* The positions of the 20 most recent photos of the sorted list.
Recent(ps) == 1..(IF Len(ps) < numRecent THEN Len(ps) ELSE numRecent)

\* The photos the home page may show: the recent ones and the older ones
\* with KeepInHomeRotation.
InRotation(ps, marked) ==
    {ps[k] : k \in Recent(ps)}
        \cup {ps[k] : k \in {x \in OlderKept(ps) : ps[x] \in marked}}

\* selectRandomPhoto returns nil exactly for the empty list, and
\* otherwise a recent photo or an older one with KeepInHomeRotation.
ResultInRotation ==
    PhotoSelected =>
        /\ result.out = 0 <=> call.arg = <<>>
        /\ result.out # 0 => result.out \in InRotation(call.arg, call.marked)

\* C36: selectRandomPhoto returns nil exactly for the empty list,
\* otherwise a photo in rotation, and every photo in rotation, the last
\* one of the list included, is a possible result.
C36_EveryKeptPhotoPossible ==
    PhotoSelected =>
        /\ ResultInRotation
        /\ call.arg # <<>> =>
                InRotation(call.arg, call.marked)
                    \subseteq selectRandomPhoto(call.arg, call.marked)

\* C37: selectRandomPhoto leaves the photos of its caller as they were:
\* the same elements in the same order.
C37_PhotosUnchanged == PhotoSelected => result.alt = call.arg


BothFetched == call.fn = "fetchAndResizePhoto" /\ result.done

\* C38: two fetch+resize jobs of one run write no file in common, also
\* when their photos have the same slug.
C38_DistinctFiles == BothFetched => result.out[1] \cap result.out[2] = {}


\* The jobs that have called insertOrReplaceArticle (insertOrReplaceFragment)
\* and still hold the mutex.
Inserted == {w \in Workers : wpc[w] = "unlock"}

\* C39: after insertOrReplaceArticle (insertOrReplaceFragment) under the
\* mutex, the collection of build holds the item, and exactly one element
\* with its slug.
C39_InsertedOnce ==
    \A w \in Inserted : Occurrences(Coll(wjob[w].kind), wjob[w].i) = 1
====
